---- MODULE Spec2Model ----
(***************************************************************************)
(* Caesar (shift) cipher and its two attacks, modelled from                *)
(*   src/src/cryptography/caesar.rs   (encrypt, decrypt, rotn, shift_n)    *)
(*   src/src/cryptanalysis/shift.rs   (frequency_analysis,                 *)
(*                                     letter_frequency, phi, deduce_key)  *)
(*                                                                         *)
(* A char is its Unicode code point.  A string is a sequence of chars.     *)
(* A panic (index out of bounds, failed expect) is the result with         *)
(* ok = FALSE.  f32 values are modelled as exact rationals [num, den] in   *)
(* lowest terms: rounding of f32 arithmetic is abstracted away.            *)
(***************************************************************************)
EXTENDS Integers, Sequences, FiniteSets, TLC

VARIABLES op, text, other, shift, out, out2, ranking, freq, key

vars == <<op, text, other, shift, out, out2, ranking, freq, key>>

(***************************************************************************)
(* Bounds of the exploration.                                              *)
(***************************************************************************)
\* longest text handed to letter_frequency / frequency_analysis
MaxLen == 3
\* longest text handed to encrypt / decrypt
MaxCipherLen == 2
\* longest plaintext / ciphertext handed to deduce_key
MaxPairLen == 2
\* shifts range over -MaxShift .. MaxShift: below -26, within [0, 25], and
\* past 26 and 52 (idx + rot never leaves i32)
MaxShift == 53

\* 'a', 'n', 'z', 'B', '1', U+00E9 (two bytes in UTF-8)
Chars == {97, 110, 122, 66, 49, 233}

StringsUpTo(n) == UNION {[1..k -> Chars] : k \in 0..n}

Shifts == (0 - MaxShift)..MaxShift

(***************************************************************************)
(* Result / Option values.                                                 *)
(***************************************************************************)
OkChar(c) == [ok |-> TRUE, val |-> c]
PanicChar == [ok |-> FALSE, val |-> 0]
OkString(s) == [ok |-> TRUE, val |-> s]
PanicString == [ok |-> FALSE, val |-> <<>>]
Some(v) == [some |-> TRUE, val |-> v]
None == [some |-> FALSE, val |-> 0]

(***************************************************************************)
(* char and str primitives of the standard library used by the code.       *)
(***************************************************************************)
is_ascii_alphabetic(c) == c \in 65..90 \/ c \in 97..122

to_ascii_lowercase(c) == IF c \in 65..90 THEN c + 32 ELSE c

len_utf8(c) == IF c < 128 THEN 1 ELSE IF c < 2048 THEN 2 ELSE IF c < 65536 THEN 3 ELSE 4

RECURSIVE ByteLen(_)
\* str::len(): the length in bytes
ByteLen(s) == IF s = <<>> THEN 0 ELSE len_utf8(Head(s)) + ByteLen(Tail(s))

\* str::chars().count(): the length in chars
CharCount(s) == Len(s)

(***************************************************************************)
(* caesar.rs                                                               *)
(***************************************************************************)
ALPHABET ==
    <<97, 98, 99, 100, 101, 102, 103, 104, 105, 106, 107, 108, 109,
      110, 111, 112, 113, 114, 115, 116, 117, 118, 119, 120, 121, 122>>

\* ALPHABET.iter().position(|&ch| ch == c): the 0-based index of c, if any
AlphabetPosition(c) ==
    IF \E i \in 1..Len(ALPHABET) : ALPHABET[i] = c
    THEN Some((CHOOSE i \in 1..Len(ALPHABET) : ALPHABET[i] = c) - 1)
    ELSE None

\* ALPHABET[i as usize]: a negative i32 casts to a huge usize, out of bounds
AlphabetAt(i) ==
    IF i >= 0 /\ i < Len(ALPHABET) THEN OkChar(ALPHABET[i + 1]) ELSE PanicChar

shift_n(c, rot) ==
    LET pos == AlphabetPosition(c)
    IN  IF ~pos.some THEN PanicChar
        ELSE LET idx == pos.val
                 sum == idx + rot
                 shifted_idx == IF sum < 0 THEN sum + 26
                                ELSE IF sum > 26 THEN sum - 26
                                ELSE sum
             IN  AlphabetAt(shifted_idx)

rotn(ciphertext, rot) ==
    LET mapped == [i \in 1..Len(ciphertext) |->
                     IF is_ascii_alphabetic(ciphertext[i])
                     THEN shift_n(to_ascii_lowercase(ciphertext[i]), rot)
                     ELSE OkChar(ciphertext[i])]
    IN  IF \E i \in 1..Len(ciphertext) : ~mapped[i].ok
        THEN PanicString
        ELSE OkString([i \in 1..Len(ciphertext) |-> mapped[i].val])

encrypt(plaintext, k) == rotn(plaintext, k)

decrypt(plaintext, k) == rotn(plaintext, 0 - k)

(***************************************************************************)
(* f32 values as exact rationals [num, den], den > 0, in lowest terms.     *)
(***************************************************************************)
RECURSIVE Gcd(_, _)
Gcd(a, b) == IF b = 0 THEN a ELSE Gcd(b, a % b)

Abs(n) == IF n < 0 THEN 0 - n ELSE n

Rat(n, d) ==
    LET g == Gcd(Abs(n), d)
    IN  [num |-> n \div g, den |-> d \div g]

RatAdd(x, y) == Rat(x.num * y.den + y.num * x.den, x.den * y.den)

RatSub(x, y) == Rat(x.num * y.den - y.num * x.den, x.den * y.den)

\* the comparison with its operands exchanged: b.1.partial_cmp(&a.1)
RatLeqSwapped(x, y) == y.num * x.den <= x.num * y.den

RatLeq(x, y) == x.num * y.den <= y.num * x.den

\* x % m on floats: the remainder of the truncating division (sign of x)
RatRem(x, m) ==
    IF x.num >= 0
    THEN Rat(x.num % (m * x.den), x.den)
    ELSE Rat(0 - ((0 - x.num) % (m * x.den)), x.den)

\* f32::round(): to the nearest integer, halves away from zero
RatRound(x) ==
    IF x.num >= 0
    THEN (2 * x.num + x.den) \div (2 * x.den)
    ELSE 0 - ((2 * (0 - x.num) + x.den) \div (2 * x.den))

\* `f as usize`: the cast saturates, a negative float becomes 0
AsUsize(n) == IF n < 0 THEN 0 ELSE n

(***************************************************************************)
(* shift.rs, section 1: the ciphertext-only attack                         *)
(***************************************************************************)
\* the frequencies of the table, in thousandths, in the order of ALPHABET
EnglishPerMille ==
    <<80, 15, 30, 40, 130, 20, 15, 60, 65, 5, 5, 35, 30,
      70, 80, 20, 2, 65, 60, 90, 30, 10, 15, 5, 20, 2>>

\* ENGLISH_MODEL.get(ch): Some(frequency) for the 26 lowercase letters
ENGLISH_MODEL(ch) ==
    LET pos == AlphabetPosition(ch)
    IN  IF pos.some THEN Some(Rat(EnglishPerMille[pos.val + 1], 1000)) ELSE None

RECURSIVE CountLetters(_, _)
\* the loop of letter_frequency: entry(lowercase).and_modify(+1).or_insert(1)
CountLetters(s, count) ==
    IF s = <<>> THEN count
    ELSE LET ch == Head(s)
             lc == to_ascii_lowercase(ch)
         IN  IF is_ascii_alphabetic(ch)
             THEN CountLetters(Tail(s),
                    IF lc \in DOMAIN count
                    THEN [count EXCEPT ![lc] = @ + 1]
                    ELSE [c \in DOMAIN count \cup {lc} |->
                            IF c = lc THEN 1 ELSE count[c]])
             ELSE CountLetters(Tail(s), count)

RECURSIVE SumValues(_, _)
\* count.values().sum()
SumValues(count, keys) ==
    IF keys = {} THEN 0
    ELSE LET c == CHOOSE c \in keys : TRUE
         IN  count[c] + SumValues(count, keys \ {c})

EmptyMap == [c \in {} |-> 0]

\* the counts divided by the length of the text, not by the number of letters
letter_frequency_over_len(ciphertext) ==
    LET count == CountLetters(ciphertext, EmptyMap)
    IN  [c \in DOMAIN count |-> Rat(count[c], Len(ciphertext))]

letter_frequency(ciphertext) ==
    LET count == CountLetters(ciphertext, EmptyMap)
        total_letters == SumValues(count, DOMAIN count)
    IN  [c \in DOMAIN count |-> Rat(count[c], total_letters)]

RECURSIVE PhiLoopSwapped(_, _, _)
\* the loop with the difference taken the other way: english - cipher
PhiLoopSwapped(profile, keys, acc) ==
    IF keys = {} THEN [ok |-> TRUE, val |-> acc]
    ELSE LET ch == CHOOSE c \in keys : TRUE
             english_freq == ENGLISH_MODEL(ch)
         IN  IF ~english_freq.some
             THEN [ok |-> FALSE, val |-> acc]
             ELSE PhiLoopSwapped(profile, keys \ {ch},
                          RatAdd(acc, RatSub(english_freq.val, profile[ch])))

RECURSIVE PhiLoop(_, _, _)
\* the loop of phi over the entries of the map
PhiLoop(profile, keys, acc) ==
    IF keys = {} THEN [ok |-> TRUE, val |-> acc]
    ELSE LET ch == CHOOSE c \in keys : TRUE
             english_freq == ENGLISH_MODEL(ch)
         IN  IF ~english_freq.some
             THEN [ok |-> FALSE, val |-> acc]
             ELSE PhiLoop(profile, keys \ {ch},
                          RatAdd(acc, RatSub(profile[ch], english_freq.val)))

phi(profile) == PhiLoop(profile, DOMAIN profile, Rat(0, 1))

\* an unstable placement: x goes before the entries equal to it
InsertSortedBeforeEqual(s, x) ==
    LET k == Cardinality({i \in 1..Len(s) : ~RatLeq(x[2], s[i][2])})
    IN  SubSeq(s, 1, k) \o <<x>> \o SubSeq(s, k + 1, Len(s))

\* where a stable sort puts x in the sorted s: after every entry not greater
InsertSorted(s, x) ==
    LET k == Cardinality({i \in 1..Len(s) : RatLeq(s[i][2], x[2])})
    IN  SubSeq(s, 1, k) \o <<x>> \o SubSeq(s, k + 1, Len(s))

RECURSIVE sort_by(_)
\* Vec::sort_by on the scores: a stable sort, ascending
sort_by(v) ==
    IF v = <<>> THEN <<>>
    ELSE InsertSorted(sort_by(SubSeq(v, 1, Len(v) - 1)), v[Len(v)])

\* the candidate shifts, 0..26 exclusive
Candidates == [n \in 1..26 |-> n - 1]

frequency_analysis(ciphertext) ==
    LET dec == [n \in 1..Len(Candidates) |-> decrypt(ciphertext, Candidates[n])]
        sc  == [n \in 1..Len(Candidates) |->
                  IF dec[n].ok THEN phi(letter_frequency(dec[n].val))
                  ELSE [ok |-> FALSE, val |-> Rat(0, 1)]]
    IN  IF \E n \in 1..Len(Candidates) : ~sc[n].ok
        THEN PanicString
        ELSE OkString(sort_by([n \in 1..Len(Candidates) |->
                                 <<Candidates[n], sc[n].val>>]))

(***************************************************************************)
(* shift.rs, section 2: the known-plaintext attack                         *)
(***************************************************************************)
RECURSIVE SumDiffs(_, _)
\* the loop over zip(plaintext.chars(), ciphertext.chars())
SumDiffs(plaintext, ciphertext) ==
    IF plaintext = <<>> \/ ciphertext = <<>> THEN 0
    ELSE LET original_idx == AlphabetPosition(to_ascii_lowercase(Head(plaintext)))
             shifted_idx == AlphabetPosition(to_ascii_lowercase(Head(ciphertext)))
             diff == IF original_idx.some /\ shifted_idx.some
                     THEN shifted_idx.val - original_idx.val
                     ELSE 0
         IN  diff + SumDiffs(Tail(plaintext), Tail(ciphertext))

\* avg_key before the remainder: the sum over the char count of the plaintext
AvgKey(plaintext, ciphertext) ==
    Rat(SumDiffs(plaintext, ciphertext), CharCount(plaintext))

deduce_key(plaintext, ciphertext) ==
    IF plaintext = <<>> \/ ciphertext = <<>>
       \/ ByteLen(plaintext) # ByteLen(ciphertext)
    THEN None
    ELSE Some(AsUsize(RatRound(RatRem(AvgKey(plaintext, ciphertext),
                                      Len(ALPHABET)))))

(***************************************************************************)
(* The calls.  Every behaviour is one call, or an encrypt followed by one  *)
(* further call on its inputs or its result.                               *)
(***************************************************************************)
Init ==
    /\ op = "init"
    /\ text = <<>>
    /\ other = <<>>
    /\ shift = 0
    /\ out = OkString(<<>>)
    /\ out2 = OkString(<<>>)
    /\ ranking = OkString(<<>>)
    /\ freq = <<>>
    /\ key = None

\* encrypt(T, k)
Encrypt ==
    /\ op = "init"
    /\ \E T \in StringsUpTo(MaxCipherLen), k \in Shifts :
         /\ text' = T
         /\ shift' = k
         /\ out' = encrypt(T, k)
    /\ op' = "encrypt"
    /\ UNCHANGED <<other, out2, ranking, freq, key>>

\* decrypt(T, k)
Decrypt ==
    /\ op = "init"
    /\ \E T \in StringsUpTo(MaxCipherLen), k \in Shifts :
         /\ text' = T
         /\ shift' = k
         /\ out' = decrypt(T, k)
    /\ op' = "decrypt"
    /\ UNCHANGED <<other, out2, ranking, freq, key>>

\* decrypt(encrypt(T, k), k): the second call of the round trip
DecryptBack ==
    /\ op = "encrypt"
    /\ out.ok
    /\ out2' = decrypt(out.val, shift)
    /\ op' = "roundtrip"
    /\ UNCHANGED <<text, other, shift, out, ranking, freq, key>>

\* encrypt(T, k + 26), after encrypt(T, k)
EncryptNextPeriod ==
    /\ op = "encrypt"
    /\ out2' = encrypt(text, shift + 26)
    /\ op' = "period"
    /\ UNCHANGED <<text, other, shift, out, ranking, freq, key>>

\* letter_frequency(T)
LetterFrequency ==
    /\ op = "init"
    /\ \E T \in StringsUpTo(MaxLen) :
         /\ text' = T
         /\ freq' = letter_frequency(T)
    /\ op' = "letter_frequency"
    /\ UNCHANGED <<other, shift, out, out2, ranking, key>>

\* frequency_analysis(T)
FrequencyAnalysis ==
    /\ op = "init"
    /\ \E T \in StringsUpTo(MaxLen) :
         /\ text' = T
         /\ ranking' = frequency_analysis(T)
    /\ op' = "frequency_analysis"
    /\ UNCHANGED <<other, shift, out, out2, freq, key>>

\* deduce_key(P, C)
DeduceKey ==
    /\ op = "init"
    /\ \E P \in StringsUpTo(MaxPairLen), C \in StringsUpTo(MaxPairLen) :
         /\ text' = P
         /\ other' = C
         /\ key' = deduce_key(P, C)
    /\ op' = "deduce_key"
    /\ UNCHANGED <<shift, out, out2, ranking, freq>>

Next ==
    \/ Encrypt
    \/ Decrypt
    \/ DecryptBack
    \/ EncryptNextPeriod
    \/ LetterFrequency
    \/ FrequencyAnalysis
    \/ DeduceKey

Spec == Init /\ [][Next]_vars

(***************************************************************************)
(* What the specification says of the results, stated independently of    *)
(* the operators above.                                                    *)
(***************************************************************************)
Letters(s) == {i \in 1..Len(s) : is_ascii_alphabetic(s[i])}

LowerLetterSet(s) == {to_ascii_lowercase(s[i]) : i \in Letters(s)}

Occurrences(s, l) == Cardinality({i \in Letters(s) : to_ascii_lowercase(s[i]) = l})

Lowercased(s) == [i \in 1..Len(s) |-> to_ascii_lowercase(s[i])]

\* the index of a lowercase letter in the alphabet, a = 0
LetterIndex(l) == l - 97

\* every letter rotated by k with a true modular reduction, the rest kept
ModularRotation(s, k) ==
    [i \in 1..Len(s) |->
       IF is_ascii_alphabetic(s[i])
       THEN 97 + ((LetterIndex(to_ascii_lowercase(s[i])) + k) % 26)
       ELSE s[i]]

RECURSIVE PerMilleSum(_)
\* the sum of the reference frequencies of a set of letters, in thousandths
PerMilleSum(ls) ==
    IF ls = {} THEN 0
    ELSE LET l == CHOOSE l \in ls : TRUE
         IN  EnglishPerMille[LetterIndex(l) + 1] + PerMilleSum(ls \ {l})

RECURSIVE ProfileSum(_, _)
\* the sum of the values of a profile
ProfileSum(profile, keys) ==
    IF keys = {} THEN Rat(0, 1)
    ELSE LET l == CHOOSE l \in keys : TRUE
         IN  RatAdd(profile[l], ProfileSum(profile, keys \ {l}))

\* the score of the n-th entry of the ranking, and its shift
ScoreAt(n) == ranking.val[n][2]
ShiftAt(n) == ranking.val[n][1]

\* the letters of the text as decrypted for the n-th entry of the ranking
DecryptedLetters(n) == LowerLetterSet(decrypt(text, ShiftAt(n)).val)

\* every place n of the ranking with the letters of its decryption
CandidateLetters == {<<n, DecryptedLetters(n)>> : n \in 1..Len(ranking.val)}

\* the average of deduce_key reduced into [0, 26) by a true modular reduction
TrueModAvg ==
    LET avg == AvgKey(text, other)
    IN  Rat(avg.num % (26 * avg.den), avg.den)

(***************************************************************************)
(* The claims.                                                             *)
(***************************************************************************)

\* C1: encrypt(text, shift) returns for every text and every integer shift,
\* and replaces every ASCII letter by the alphabet letter at index
\* (index(lowercased letter) + shift) mod 26, a true modular reduction.
C1_EncryptIsModularRotation ==
    op = "encrypt" => out.ok /\ out.val = ModularRotation(text, shift)

\* C2: round trip: decrypt(encrypt(T, k), k) equals T with all letters
\* lowercased and all other characters unchanged, for every T and k.
C2_RoundTrip ==
    /\ op = "encrypt" => out.ok
    /\ op = "roundtrip" => out2.ok /\ out2.val = Lowercased(text)

\* C3: shift periodicity: encrypt(T, k) equals encrypt(T, k + 26) for every
\* T and k (two failing calls are counted as equal here).
C3_ShiftPeriodicity ==
    op = "period" /\ (out.ok \/ out2.ok) =>
        out.ok /\ out2.ok /\ out.val = out2.val

\* C4: frequency_analysis returns, for every ciphertext (also one without
\* letters), exactly 26 (shift, score) entries, every shift of 0..25 exactly
\* once, the scores non-decreasing from first to last.
C4_RankingComplete ==
    op = "frequency_analysis" =>
        /\ ranking.ok
        /\ Len(ranking.val) = 26
        /\ \A s \in 0..25 :
             Cardinality({n \in 1..Len(ranking.val) : ShiftAt(n) = s}) = 1
        /\ \A n \in 1..(Len(ranking.val) - 1) :
             ScoreAt(n).num * ScoreAt(n + 1).den
                <= ScoreAt(n + 1).num * ScoreAt(n).den

\* C4 witness: a non-empty ciphertext without any letter was analysed.
C4_Witness ==
    /\ op = "frequency_analysis"
    /\ text # <<>>
    /\ Letters(text) = {}
    /\ ranking.ok
    /\ Len(ranking.val) = 26

\* C5: known-plaintext recovery: for a non-empty plaintext of ASCII letters
\* only and k in 0..25, deduce_key(P, P rotated by k modulo 26) returns k.
C5_KnownPlaintextRecovery ==
    op = "deduce_key" /\ text # <<>> /\ Letters(text) = DOMAIN text =>
        \A k \in 0..25 :
            other = ModularRotation(text, k) => key = Some(k)

\* C6: deduce_key returns no result exactly when the plaintext is empty, the
\* ciphertext is empty, or the two differ in their number of characters.
C6_NoResultIffEmptyOrCharCountsDiffer ==
    op = "deduce_key" =>
        (~key.some <=> (text = <<>> \/ other = <<>> \/ Len(text) # Len(other)))

\* C7: letter_frequency returns a mapping whose domain is exactly the set of
\* distinct lowercased ASCII letters of the text (empty without letters),
\* each value the letter's case-insensitive count over the number of ASCII
\* letters of the text, the values summing to 1 when there is a letter.
C7_ProfileIsRelativeFrequency ==
    op = "letter_frequency" =>
        /\ DOMAIN freq = LowerLetterSet(text)
        /\ \A l \in DOMAIN freq :
             freq[l].num * Cardinality(Letters(text))
                = Occurrences(text, l) * freq[l].den
        /\ Letters(text) # {} => ProfileSum(freq, DOMAIN freq) = Rat(1, 1)

\* C7 witness: a text with a non-letter, an uppercase letter and two
\* distinct letters was profiled.
C7_Witness ==
    /\ op = "letter_frequency"
    /\ \E i \in 1..Len(text) : ~is_ascii_alphabetic(text[i])
    /\ \E i \in 1..Len(text) : text[i] # to_ascii_lowercase(text[i])
    /\ Cardinality(DOMAIN freq) = 2

\* C8: in the ranking any two entries of equal score appear with the smaller
\* shift first; for a ciphertext without letters the shifts come back in the
\* order 0, 1, ..., 25.
C8_TiesBySmallerShift ==
    op = "frequency_analysis" /\ ranking.ok =>
        /\ \A m, n \in 1..Len(ranking.val) :
             m < n /\ ScoreAt(m) = ScoreAt(n) => ShiftAt(m) < ShiftAt(n)
        /\ Letters(text) = {} =>
             \A n \in 1..Len(ranking.val) : ShiftAt(n) = n - 1

\* C8 witness: a ciphertext with letters whose ranking holds a tie, and
\* whose order is not the order of the candidates.
C8_Witness ==
    /\ op = "frequency_analysis"
    /\ ranking.ok
    /\ Letters(text) # {}
    /\ \E m, n \in 1..Len(ranking.val) : m < n /\ ScoreAt(m) = ScoreAt(n)
    /\ \E m, n \in 1..Len(ranking.val) : m < n /\ ShiftAt(m) > ShiftAt(n)

\* C9: when the average of the index differences is negative, deduce_key
\* returns the true modular reduction of the average into [0, 26), rounded
\* to the nearest integer; every returned shift lies in [0, 26].
C9_NegativeAverageReducedModulo ==
    op = "deduce_key" /\ key.some =>
        /\ key.val \in 0..26
        /\ AvgKey(text, other).num < 0 => key.val = RatRound(TrueModAvg)

\* C10: the score of a candidate is 1 minus the sum of the reference
\* frequencies of the distinct letters of its decryption, 0 without letters;
\* so two candidates with the same set of distinct letters score the same.
C10_ScoreDependsOnLetterSet ==
    op = "frequency_analysis" /\ ranking.ok =>
        \A a, b \in CandidateLetters :
            /\ IF a[2] = {}
               THEN ScoreAt(a[1]).num = 0
               ELSE ScoreAt(a[1]).num * 1000
                      = (1000 - PerMilleSum(a[2])) * ScoreAt(a[1]).den
            /\ a[2] = b[2] => ScoreAt(a[1]) = ScoreAt(b[1])

\* C10 witness: two candidates whose decryptions have the same letters in
\* different proportions.
C10_Witness ==
    /\ op = "frequency_analysis"
    /\ ranking.ok
    /\ \E a, b \in CandidateLetters :
         /\ a[1] # b[1]
         /\ a[2] # {}
         /\ a[2] = b[2]
         /\ letter_frequency(decrypt(text, ShiftAt(a[1])).val)
              # letter_frequency(decrypt(text, ShiftAt(b[1])).val)
         /\ ScoreAt(a[1]) = ScoreAt(b[1])

====
